---- MODULE Spec2Model ----
(***************************************************************************)
(* Model of the forensic extractors' chunked JSONL sink, of the YARA disk   *)
(* scan (src/YaraDiskScan/script.py): the parsing of the options, main's   *)
(* start-up, root discovery, the stack walk, the file qualifier, scan_file *)
(* with format_strings, and the end of main; and of the Hayabusa runner's  *)
(* download_and_extract_hayabusa (src/HayabusaRunner/script.py).           *)
(*                                                                         *)
(* Text is modelled as a sequence of one-character strings, so that        *)
(* str.lower() and pathlib's suffix are computed, not assumed.  A path is  *)
(* the sequence of its parts (pathlib's .parts).  Python's None is the     *)
(* empty sequence and a present value x is <<x>>.                          *)
(***************************************************************************)
EXTENDS Integers, Sequences, FiniteSets, TLC

VARIABLES
    \* ChunkedJSONLWriter
    variant,      \* which script's writer: "yara" (_open_next_file) or "mft" (_rotate)
    maxLines,     \* self.max_lines
    fileIndex,    \* self._file_index
    lineCount,    \* self._line_count
    fh,           \* self._fh: "none" (None), "open", "closed" (a closed handle object)
    segments,     \* the output directory: [ord, lines] per file, in creation order
    nWrites,      \* write calls that returned
    nCloses,      \* close calls that found a handle in self._fh
    \* main / walk_files / scan_file
    config,       \* ScanConfig
    rules,        \* the compiled rules: the rules a match run can report
    target,       \* the opened Target: the root candidates that exist on its filesystem
    pc,           \* position of main
    stack,        \* walk_files: stack
    visited,      \* walk_files: visited
    entries,      \* walk_files: the entries of the current directory not yet looked at
    current,      \* the (entry, stat) pair walk_files has yielded, <<>> when none
    scanned,      \* main: scanned
    matches,      \* main: matches
    abortCause,   \* the exception that ended main, "" when none
    handed,       \* the files handed to scan_file, in order
    last,         \* what the last scan_file call did
    prevOutcome,  \* what happened to the file of the scan_file call before it
    env,          \* what main's start-up finds: evidence path, output directory, rule source
    opens,        \* calls of Target.open
    expanded,     \* the directories walk_files called iterdir() on, in order
    summary,      \* the totals main logs at the end, <<>> before
    \* harness of the pure functions
    fn, arg, res

sinkVars == <<variant, maxLines, fileIndex, lineCount, fh, segments, nWrites, nCloses>>
scanVars == <<config, rules, target, pc, stack, visited, entries, current, scanned, matches,
              abortCause, handed, last, prevOutcome, env, opens, expanded, summary>>
pureVars == <<fn, arg, res>>
vars == <<sinkVars, scanVars, pureVars>>

-----------------------------------------------------------------------------
\* Bounds of the model

MaxThreshold == 3
MaxWrites == 7
MaxMatches == 3
MaxCap == 2
MaxFileSize == 3
ScanThreshold == 2
MaxDepth == 6

None == <<>>
Some(x) == <<x>>

Min(a, b) == IF a <= b THEN a ELSE b

-----------------------------------------------------------------------------
\* ChunkedJSONLWriter

\* open(path, "w"): creates the file, or truncates the one of that name
OpenForWrite(segs, ord) ==
    IF \E i \in 1..Len(segs) : segs[i].ord = ord
    THEN [i \in 1..Len(segs) |-> IF segs[i].ord = ord THEN [ord |-> ord, lines |-> 0]
                                                      ELSE segs[i]]
    ELSE Append(segs, [ord |-> ord, lines |-> 0])

\* a rotation that opens the file it opened last, once it has opened one
ReopensLast(v, idx) ==
    IF v = "mft" THEN (IF idx = 0 THEN 1 ELSE idx) ELSE (IF idx = 0 THEN 0 ELSE idx - 1)

\* the ordinal in the name of the file the next rotation opens
NextOrdinal(v, idx) == IF v = "mft" THEN idx + 1 ELSE idx

DigitChars == <<"0","1","2","3","4","5","6","7","8","9">>

\* the decimal digits of a natural number
RECURSIVE Digits(_)
Digits(n) ==
    IF n < 10 THEN <<DigitChars[n + 1]>>
    ELSE Digits(n \div 10) \o <<DigitChars[(n % 10) + 1]>>

\* the format specs :05d and :04d: at least width digits, zeros in front
NoPad(n, width) == Digits(n)
ZeroPad(n, width) ==
    LET d == Digits(n)
    IN  IF Len(d) >= width THEN d ELSE [i \in 1..(width - Len(d)) |-> "0"] \o d

\* the width of the ordinal in a file name
OrdinalWidth(v) == IF v = "mft" THEN 4 ELSE 5

\* base_name: "mft_extract", "yara_disk_matches"
BaseName(v) ==
    IF v = "mft" THEN <<"m","f","t","_","e","x","t","r","a","c","t">>
    ELSE <<"y","a","r","a","_","d","i","s","k","_","m","a","t","c","h","e","s">>

\* f"{self.base_name}_{self._file_index:05d}.jsonl"
SegmentName(v, ord) ==
    BaseName(v) \o <<"_">> \o ZeroPad(ord, OrdinalWidth(v)) \o <<".","j","s","o","n","l">>

\* fh.write(line): one more line in the file of that ordinal
AppendLine(segs, ord) ==
    [i \in 1..Len(segs) |-> IF segs[i].ord = ord
                            THEN [ord |-> ord, lines |-> segs[i].lines + 1]
                            ELSE segs[i]]

\* the ordinal of the file self._fh writes to
CurrentOrdinal(v, idx) == IF v = "mft" THEN idx ELSE idx - 1

\* write's test: if not self._fh or self._line_count >= self.max_lines
RotatesLate(h, cnt, lim) == h = "none" \/ cnt > lim
NeedsRotation(h, cnt, lim) == h = "none" \/ cnt >= lim

\* The sink after write(obj) returned: [fileIndex, lineCount, fh, segments]
SinkWrite(v, s, lim) ==
    LET rot == NeedsRotation(s.fh, s.lineCount, lim)
        idx == IF rot THEN s.fileIndex + 1 ELSE s.fileIndex
        sg0 == IF rot THEN OpenForWrite(s.segments, NextOrdinal(v, s.fileIndex))
                      ELSE s.segments
        cnt == IF rot THEN 0 ELSE s.lineCount
    IN  [fileIndex |-> idx,
         lineCount |-> cnt + 1,
         fh        |-> "open",
         segments  |-> AppendLine(sg0, CurrentOrdinal(v, idx))]

\* The sink after write(obj) raised because the next file could not be opened:
\* the old handle is closed and the attribute still holds it; _rotate has by
\* then advanced the index and reset the count, _open_next_file has not
SinkOpenFailed(v, s) ==
    [fileIndex |-> IF v = "mft" THEN s.fileIndex + 1 ELSE s.fileIndex,
     lineCount |-> IF v = "mft" THEN 0 ELSE s.lineCount,
     fh        |-> IF s.fh = "open" THEN "closed" ELSE s.fh,
     segments  |-> s.segments]

\* write(obj) can return: it opens a file, or its handle is open (a write to a
\* closed handle raises ValueError and changes nothing)
Writable(h, cnt, lim) == NeedsRotation(h, cnt, lim) \/ h = "open"

Sink == [fileIndex |-> fileIndex, lineCount |-> lineCount, fh |-> fh, segments |-> segments]

SetSink(s) ==
    /\ fileIndex' = s.fileIndex
    /\ lineCount' = s.lineCount
    /\ fh' = s.fh
    /\ segments' = s.segments

InitSink(v, lim) ==
    /\ variant = v
    /\ maxLines = lim
    /\ fileIndex = 0
    /\ lineCount = 0
    /\ fh = "none"
    /\ segments = <<>>
    /\ nWrites = 0
    /\ nCloses = 0

Write ==
    /\ nWrites < MaxWrites
    /\ Writable(fh, lineCount, maxLines)
    /\ SetSink(SinkWrite(variant, Sink, maxLines))
    /\ nWrites' = nWrites + 1
    /\ UNCHANGED <<variant, maxLines, nCloses>>

WriteOpenFails ==
    /\ nWrites < MaxWrites
    /\ fileIndex < MaxWrites
    /\ NeedsRotation(fh, lineCount, maxLines)
    /\ SetSink(SinkOpenFailed(variant, Sink))
    /\ UNCHANGED <<variant, maxLines, nWrites, nCloses>>

Close ==
    /\ fh' = IF fh # "none" THEN "none" ELSE fh
    /\ nCloses' = IF fh # "none" THEN nCloses + 1 ELSE nCloses
    /\ UNCHANGED <<variant, maxLines, fileIndex, lineCount, segments, nWrites>>

-----------------------------------------------------------------------------
\* Text

UpperAlphabet == <<"A","B","C","D","E","F","G","H","I","J","K","L","M",
                   "N","O","P","Q","R","S","T","U","V","W","X","Y","Z">>
LowerAlphabet == <<"a","b","c","d","e","f","g","h","i","j","k","l","m",
                   "n","o","p","q","r","s","t","u","v","w","x","y","z">>

LowerChar(c) ==
    IF \E i \in 1..26 : UpperAlphabet[i] = c
    THEN LowerAlphabet[CHOOSE i \in 1..26 : UpperAlphabet[i] = c]
    ELSE c

\* str.lower()
Lower(s) == [i \in 1..Len(s) |-> LowerChar(s[i])]

\* pathlib's PurePath.suffix of a file name: from the last dot on, unless
\* that dot is the first or the last character
Suffix(name) ==
    LET dots == {i \in 1..Len(name) : name[i] = "."}
    IN  IF dots = {} THEN <<>>
        ELSE LET i == CHOOSE d \in dots : \A e \in dots : e <= d
             IN  IF 1 < i /\ i < Len(name) THEN SubSeq(name, i, Len(name)) ELSE <<>>

\* str(path).lower(): the separators have no case, so the key is the parts lower-cased
PathKey(parts) == [i \in 1..Len(parts) |-> Lower(parts[i])]

-----------------------------------------------------------------------------
\* The evidence filesystem the model scans (the dissect.target collaborator)

nSlash  == <<"/">>
nCu     == <<"C", ":">>
ncl     == <<"c", ":">>
nC      == <<"C">>
nDevice == <<"D","e","v","i","c","e">>
nVolume == <<"H","a","r","d","d","i","s","k","V","o","l","u","m","e","1">>
nUsers  == <<"U","s","e","r","s">>
nWinSxS == <<"W","i","n","S","x","S">>
nSub    == <<"s","u","b">>
nBad    == <<"b","a","d">>
nPipe   == <<"p","i","p","e">>
nLost   == <<"l","o","s","t">>
nTmp    == <<"T","m","p">>
nTMP    == <<"T","M","P">>
nLoop   == <<"l","o","o","p">>

dotExe  == <<".","e","x","e">>
dotDll  == <<".","d","l","l">>
dotTxt  == <<".","t","x","t">>

\* the directories: what iterdir() lists, in its order; kind "dir" / "file",
\* "other" (neither is_dir nor is_file), "broken" (is_dir raises FilesystemError)
DirEntries(node) ==
    CASE node = "D0" -> << [name |-> ncl,    kind |-> "dir",  id |-> "D1"] >>
      [] node = "D1" -> << [name |-> <<"a",".","e","x","e">>, kind |-> "file", id |-> "f1"],
                           [name |-> nPipe,  kind |-> "other", id |-> "p1"],
                           [name |-> nBad,   kind |-> "dir",  id |-> "D5"],
                           [name |-> nWinSxS, kind |-> "dir", id |-> "D3"],
                           [name |-> nUsers, kind |-> "dir",  id |-> "D2"] >>
      [] node = "D2" -> << [name |-> <<"A",".","E","X","E">>, kind |-> "file", id |-> "f2"],
                           [name |-> <<"a",".","t","x","t">>, kind |-> "file", id |-> "f3"],
                           [name |-> nLost,  kind |-> "broken", id |-> "b1"],
                           [name |-> <<"b","i","g",".","d","l","l">>, kind |-> "file", id |-> "f4"],
                           [name |-> <<"e",".","e","x","e">>, kind |-> "file", id |-> "f5"],
                           [name |-> <<"n",".","e","x","e">>, kind |-> "file", id |-> "f6"],
                           [name |-> <<"t",".","e","x","e">>, kind |-> "file", id |-> "f7"],
                           [name |-> <<"z",".","E","x","e">>, kind |-> "file", id |-> "f8"] >>
      [] node = "D3" -> << [name |-> <<"x",".","e","x","e">>, kind |-> "file", id |-> "f9"],
                           [name |-> nSub,   kind |-> "dir",  id |-> "D4"],
                           [name |-> nBad,   kind |-> "dir",  id |-> "D5"] >>
      [] node = "D4" -> << [name |-> <<"y",".","e","x","e">>, kind |-> "file", id |-> "f10"],
                           [name |-> nTmp,   kind |-> "dir",  id |-> "D6"],
                           [name |-> nTMP,   kind |-> "dir",  id |-> "D7"] >>
      [] node = "D6" -> << [name |-> <<"p",".","e","x","e">>, kind |-> "file", id |-> "f11"] >>
      [] node = "D7" -> << [name |-> <<"q",".","e","x","e">>, kind |-> "file", id |-> "f12"] >>
      \* a volume whose directory loop is a symbolic link to the volume's root:
      \* is_dir() follows the link, iterdir() lists the root again
      [] node = "D8" -> << [name |-> <<"v",".","e","x","e">>, kind |-> "file", id |-> "f13"],
                           [name |-> nLoop,  kind |-> "dir",  id |-> "D8"] >>
      [] OTHER -> <<>>

\* iterdir() raises FilesystemError: an unreadable directory, or no directory
ListFails(node) == node \in {"D5", ""}

\* a file: st_size, the bytes a read can return, st_mtime ("ok", "none": no
\* such attribute, "bad": out of the range datetime converts), and whether
\* stat() raises FilesystemError
FileAttr(id) ==
    CASE id = "f1"  -> [size |-> 1, content |-> 1, mtime |-> "ok",   statFails |-> FALSE]
      [] id = "f2"  -> [size |-> 2, content |-> 4, mtime |-> "ok",   statFails |-> FALSE]
      [] id = "f3"  -> [size |-> 1, content |-> 1, mtime |-> "none", statFails |-> FALSE]
      [] id = "f4"  -> [size |-> 4, content |-> 4, mtime |-> "ok",   statFails |-> FALSE]
      [] id = "f5"  -> [size |-> 0, content |-> 0, mtime |-> "ok",   statFails |-> FALSE]
      [] id = "f6"  -> [size |-> 1, content |-> 1, mtime |-> "ok",   statFails |-> TRUE]
      [] id = "f7"  -> [size |-> 1, content |-> 1, mtime |-> "bad",  statFails |-> FALSE]
      [] id = "f8"  -> [size |-> 3, content |-> 3, mtime |-> "ok",   statFails |-> FALSE]
      [] id = "f9"  -> [size |-> 1, content |-> 1, mtime |-> "ok",   statFails |-> FALSE]
      [] OTHER      -> [size |-> 2, content |-> 2, mtime |-> "ok",   statFails |-> FALSE]

\* ROOT_CANDIDATES, each as the path fs.path(candidate) gives and the
\* directory it names ("" when there is none)
ROOT_CANDIDATES ==
    << [parts |-> <<nSlash>>,                   node |-> "D0"],   \* "/"
       [parts |-> <<nSlash>>,                   node |-> "D0"],   \* "\\"
       [parts |-> <<nCu>>,                      node |-> "D1"],   \* "C:"
       [parts |-> <<nCu>>,                      node |-> "D1"],   \* "C:/"
       [parts |-> <<nC>>,                       node |-> ""],     \* "C\\"
       [parts |-> <<nSlash, nDevice, nVolume>>, node |-> "D8"] >> \* "\\Device\\HarddiskVolume1"

-----------------------------------------------------------------------------
\* determine_roots

\* determine_roots without the test `key in seen`
RECURSIVE RootsKeepAll(_, _, _, _)
RootsKeepAll(i, exists, seen, roots) ==
    IF i > Len(ROOT_CANDIDATES) THEN roots
    ELSE IF i \notin exists THEN RootsKeepAll(i + 1, exists, seen, roots)
    ELSE RootsKeepAll(i + 1, exists, seen, Append(roots, ROOT_CANDIDATES[i]))

RECURSIVE RootsFrom(_, _, _, _)
RootsFrom(i, exists, seen, roots) ==
    IF i > Len(ROOT_CANDIDATES) THEN roots
    ELSE LET path == ROOT_CANDIDATES[i]
             key  == PathKey(path.parts)
         IN  IF i \notin exists \/ key \in seen
             THEN RootsFrom(i + 1, exists, seen, roots)
             ELSE RootsFrom(i + 1, exists, seen \cup {key}, Append(roots, path))

\* in the set of a target: fs.path raises FilesystemError on this filesystem,
\* so that no candidate resolves and the fallback fs.path("/") fails as well
NoRootPath == 0

\* determine_roots without its fallback
NoFallback(exists) == RootsFrom(1, exists, {}, <<>>)

\* exists: the candidates that resolve and exist on the target's filesystem.
\* The fallback fs.path("/") is then a path that names no directory, or it
\* raises and the result stays empty.
DetermineRoots(exists) ==
    LET roots == RootsFrom(1, exists, {}, <<>>)
    IN  IF roots # <<>> THEN roots
        ELSE IF NoRootPath \in exists THEN <<>>
        ELSE <<[parts |-> <<nSlash>>, node |-> ""]>>

-----------------------------------------------------------------------------
\* parse_extensions

DEFAULT_EXTENSIONS ==
    { dotExe, dotDll, <<".","s","y","s">>, <<".","s","c","r">>, <<".","o","c","x">>,
      <<".","d","r","v">>, <<".","c","o","m">>, <<".","c","p","l">>, <<".","b","i","n">>,
      <<".","d","a","t">> }

\* str.split(","): the pieces between the commas, in order
RECURSIVE SplitFrom(_, _, _)
SplitFrom(s, i, piece) ==
    IF i > Len(s) THEN <<piece>>
    ELSE IF s[i] = "," THEN <<piece>> \o SplitFrom(s, i + 1, <<>>)
    ELSE SplitFrom(s, i + 1, Append(piece, s[i]))
Split(s) == SplitFrom(s, 1, <<>>)

\* str.strip(): without the white space at both ends
Strip(s) ==
    LET inked == {i \in 1..Len(s) : s[i] # " "}
    IN  IF inked = {} THEN <<>>
        ELSE SubSeq(s, CHOOSE i \in inked : \A j \in inked : i <= j,
                       CHOOSE i \in inked : \A j \in inked : j <= i)

\* ext if ext.startswith(".") else f".{ext}"
KeepAsListed(ext) == ext
Dotted(ext) == IF ext # <<>> /\ ext[1] = "." THEN ext ELSE <<".">> \o ext

\* parse_extensions(value): value is None (the variable is unset) or the text
ParseExtensions(value) ==
    IF value = None \/ value[1] = <<>> THEN Some(DEFAULT_EXTENSIONS)
    ELSE LET pieces == Split(value[1])
             normalized == {Lower(Strip(pieces[i])) :
                              i \in {j \in 1..Len(pieces) : Strip(pieces[j]) # <<>>}}
         IN  IF normalized = {} \/ <<"*">> \in normalized THEN None
             ELSE Some({Dotted(ext) : ext \in normalized})

-----------------------------------------------------------------------------
\* should_scan_file: the stat when the file qualifies, None otherwise

\* path.suffix.lower()
SuffixAsIs(name) == Suffix(name)
SuffixLower(name) == Lower(Suffix(name))

SizeAdmitted(size, limit) == ~(size = 0 \/ size > limit)

ParentOnly(parts) == IF Len(parts) >= 2 THEN {Lower(parts[Len(parts) - 1])} ELSE {}
PartsLower(parts) == {Lower(parts[i]) : i \in 1..Len(parts)}

ShouldScanFile(parts, attr, cfg) ==
    IF attr.statFails THEN None
    ELSE IF ~SizeAdmitted(attr.size, cfg.max_file_size) THEN None
    ELSE IF cfg.include_extensions # None
            /\ SuffixLower(parts[Len(parts)]) \notin cfg.include_extensions[1] THEN None
    ELSE IF PartsLower(parts) \cap cfg.exclude_dirs # {} THEN None
    ELSE Some([st_size |-> attr.size, st_mtime |-> attr.mtime])

-----------------------------------------------------------------------------
\* The rules and their metadata (yara's Match.rule and Match.meta)

kSeverity   == <<"s","e","v","e","r","i","t","y">>
kConfidence == <<"c","o","n","f","i","d","e","n","c","e">>
kScore      == <<"s","c","o","r","e">>
kLevel      == <<"l","e","v","e","l">>
kWeight     == <<"w","e","i","g","h","t">>
kAuthor     == <<"a","u","t","h","o","r">>

SEVERITY_KEYS == {kSeverity, kConfidence, kScore, kLevel, kWeight}

\* metadata values: a number, a value float() raises TypeError on, a string
Num(n) == [kind |-> "num", num |-> n, text |-> <<>>]
Text == [kind |-> "text", num |-> 0, text |-> <<>>]
Str(s) == [kind |-> "str", num |-> 0, text |-> s]

\* Match.meta of the match a rule reports, by Match.rule
RuleMeta(rule) ==
    CASE rule = "Ra" -> << [key |-> kSeverity, value |-> Num(3)] >>
      [] rule = "Rb" -> << [key |-> kAuthor, value |-> Text],
                           [key |-> <<"S","c","o","r","e">>, value |-> Num(1)] >>
      [] rule = "Rc" -> << [key |-> kAuthor, value |-> Text] >>
      [] rule = "Rd" -> << [key |-> <<"L","E","V","E","L">>, value |-> Text],
                           [key |-> kWeight, value |-> Num(2)] >>
      [] OTHER -> <<>>

\* the value of a text of decimal digits
RECURSIVE DigitsValue(_)
DigitsValue(t) ==
    IF t = <<>> THEN 0
    ELSE DigitsValue(SubSeq(t, 1, Len(t) - 1)) * 10
         + (CHOOSE d \in 0..9 : DigitChars[d + 1] = t[Len(t)])

\* float(value): the number, or None when it raises TypeError or ValueError;
\* of a string, the number its digits stand for once the white space around
\* them is dropped
FloatOf(v) ==
    IF v.kind = "num" THEN Some(v.num)
    ELSE IF v.kind = "str"
    THEN LET t == Strip(v.text)
         IN  IF t = <<>> \/ \E i \in 1..Len(t) : \A d \in 1..10 : DigitChars[d] # t[i]
             THEN None
             ELSE Some(DigitsValue(t))
    ELSE None

\* extract_severity with `return None` in place of `continue` in its except
RECURSIVE FirstKeyOnly(_, _)
FirstKeyOnly(meta, i) ==
    IF i > Len(meta) THEN None
    ELSE IF Lower(meta[i].key) \in SEVERITY_KEYS THEN FloatOf(meta[i].value)
    ELSE FirstKeyOnly(meta, i + 1)

RECURSIVE SeverityFrom(_, _)
SeverityFrom(meta, i) ==
    IF i > Len(meta) THEN None
    ELSE IF Lower(meta[i].key) \in SEVERITY_KEYS /\ FloatOf(meta[i].value) # None
         THEN FloatOf(meta[i].value)
         ELSE SeverityFrom(meta, i + 1)

\* extract_severity
ExtractSeverity(meta) == SeverityFrom(meta, 1)

\* scan_file's severity policy: the two `continue` of its loop
DroppedAtThreshold(sev, cfg) ==
    \/ cfg.require_severity /\ sev = None
    \/ sev # None /\ cfg.min_severity # None /\ sev[1] <= cfg.min_severity[1]
Dropped(sev, cfg) ==
    \/ cfg.require_severity /\ sev = None
    \/ sev # None /\ cfg.min_severity # None /\ sev[1] < cfg.min_severity[1]

-----------------------------------------------------------------------------
\* format_strings

\* the alphabet of base64.b64encode
B64Alphabet ==
    UpperAlphabet \o LowerAlphabet \o <<"0","1","2","3","4","5","6","7","8","9","+","/">>

\* base64.b64encode(data).decode("ascii"): data is a sequence of bytes 0..255
RECURSIVE B64Encode(_)
B64Encode(data) ==
    IF data = <<>> THEN <<>>
    ELSE LET n  == Len(data)
             b1 == data[1]
             b2 == IF n >= 2 THEN data[2] ELSE 0
             b3 == IF n >= 3 THEN data[3] ELSE 0
         IN  << B64Alphabet[(b1 \div 4) + 1],
                B64Alphabet[(b1 % 4) * 16 + (b2 \div 16) + 1],
                IF n >= 2 THEN B64Alphabet[(b2 % 16) * 4 + (b3 \div 64) + 1] ELSE "=",
                IF n >= 3 THEN B64Alphabet[(b3 % 64) + 1] ELSE "=" >>
             \o B64Encode(SubSeq(data, 4, n))

\* the slice s[:n]: a negative n counts from the end
SliceTo(s, n) ==
    IF n >= 0 THEN SubSeq(s, 1, Min(n, Len(s)))
    ELSE SubSeq(s, 1, IF Len(s) + n > 0 THEN Len(s) + n ELSE 0)

\* the snippet of one occurrence: data is bytes, or something str() turns into text
Snippet(data, n) ==
    IF data.kind = "bytes" THEN B64Encode(SliceTo(data.val, n)) ELSE SliceTo(data.val, n)

\* format_strings(match, config): strings is match.strings
RECURSIVE FormatFrom(_, _, _, _)
FormatFrom(strings, idx, cfg, out) ==
    IF idx >= Len(strings) THEN out
    ELSE IF idx >= cfg.max_strings THEN out
    ELSE FormatFrom(strings, idx + 1, cfg,
                    Append(out, [identifier |-> strings[idx + 1].identifier,
                                     offset |-> strings[idx + 1].offset,
                                     snippet_b64 |-> Snippet(strings[idx + 1].data,
                                                             cfg.string_sample_bytes)]))
FormatStrings(strings, cfg) == FormatFrom(strings, 0, cfg, <<>>)

-----------------------------------------------------------------------------
\* scan_file

\* read_file_bytes: handle.read(limit), a negative limit reads to the end
ReadAll(content, limit) == content
ReadLen(content, limit) == IF limit < 0 THEN content ELSE Min(content, limit)

\* the matcher failures scan_file catches: yara.TimeoutError and yara.Error
CaughtErrorOnly(kind) == kind = "error"
Caught(kind) == kind \in {"timeout", "error"}

\* the test that ends the loop after a record was written
CapReached(written, cap) == written >= cap

\* The loop over the matches from the i-th on.  failAt = n > 0: the n-th write
\* of this file raises when it has to open a file; 0: no write raises.
RECURSIVE EmitLoop(_, _, _, _, _, _, _, _)
EmitLoop(ms, i, written, emitted, sink, w, cfg, failAt) ==
    IF i > Len(ms)
    THEN [sink |-> sink, written |-> written, emitted |-> emitted, raised |-> FALSE]
    ELSE IF Dropped(ExtractSeverity(RuleMeta(ms[i])), cfg)
    THEN EmitLoop(ms, i + 1, written, emitted, sink, w, cfg, failAt)
    ELSE IF failAt = written + 1 /\ NeedsRotation(sink.fh, sink.lineCount, w.max_lines)
    THEN [sink |-> SinkOpenFailed(w.variant, sink), written |-> written, emitted |-> emitted,
          raised |-> TRUE]
    ELSE LET sink1 == SinkWrite(w.variant, sink, w.max_lines)
             emit1 == Append(emitted, ms[i])
         IN  IF CapReached(written + 1, cfg.max_matches_per_file)
             THEN [sink |-> sink1, written |-> written + 1, emitted |-> emit1,
                   raised |-> FALSE]
             ELSE EmitLoop(ms, i + 1, written + 1, emit1, sink1, w, cfg, failAt)

\* What one call scan_file(path, stat, ...) does.  readOk: the open and the read
\* succeed; mres: what rules.match does; failAt: see EmitLoop.
\* event: what happened to the file ("unreadable", "empty": no byte read,
\* "timeout", "error", "matches"); outcome: "skipped" (returned 0 before the
\* loop), "matched" (the loop ran and the call returned), or "raised" with the
\* exception in cause.
ScanFileResult(attr, stat, sink, w, cfg, readOk, mres, failAt) ==
    LET data == IF readOk THEN Some(ReadLen(attr.content, cfg.max_file_size)) ELSE None
        quiet(e, o, calls, passed) ==
            [event |-> e, outcome |-> o, cause |-> "", returned |-> 0, sink |-> sink,
             calls |-> calls, passed |-> passed, result |-> <<>>, emitted |-> <<>>]
    IN  IF data = None THEN quiet("unreadable", "skipped", 0, 0)
        ELSE IF data[1] = 0 THEN quiet("empty", "skipped", 0, 0)
        ELSE IF mres.kind # "matches"
        THEN IF Caught(mres.kind) THEN quiet(mres.kind, "skipped", 1, data[1])
             ELSE [quiet(mres.kind, "raised", 1, data[1]) EXCEPT !.cause = mres.kind]
        ELSE IF stat.st_mtime = "bad"
        THEN [quiet("matches", "raised", 1, data[1])
                EXCEPT !.cause = "mtime", !.result = mres.list]
        ELSE LET r == EmitLoop(mres.list, 1, 0, <<>>, sink, w, cfg, failAt)
             IN  [event |-> "matches",
                  outcome |-> IF r.raised THEN "raised" ELSE "matched",
                  cause |-> IF r.raised THEN "sink" ELSE "",
                  returned |-> IF r.raised THEN 0 ELSE r.written,
                  sink |-> r.sink, calls |-> 1, passed |-> data[1],
                  result |-> mres.list, emitted |-> r.emitted]

\* the sequences of at most n distinct elements of S
DistinctSeqs(S, n) ==
    UNION {{q \in [1..k -> S] : \A i, j \in 1..k : i # j => q[i] # q[j]} : k \in 0..n}

\* what rules.match can do: raise yara.TimeoutError, raise yara.Error, or
\* return the matching rules, each once
MatcherOutcomes(rs) ==
    {[kind |-> "timeout", list |-> <<>>], [kind |-> "error", list |-> <<>>]}
    \cup {[kind |-> "matches", list |-> l] : l \in DistinctSeqs(rs, MaxMatches)}

-----------------------------------------------------------------------------
\* main and walk_files

\* the start-up environment in which load_context, load_scan_config,
\* compile_rules and the writer's constructor all succeed
OkEnv == [evidence |-> "present", outdir |-> "ok", rulesrc |-> "ok", options |-> "ok"]

\* load_context: the exception that ends it, "" when it returns
LoadContext(e) ==
    IF e.evidence = "unset" THEN "SystemExit: EVIDENCE_PATH"
    ELSE IF e.outdir = "unset" THEN "SystemExit: OUTPUT_DIR"
    ELSE IF e.evidence = "absent" THEN "SystemExit: Evidence introuvable"
    ELSE IF e.outdir = "context_fails" THEN "OSError: mkdir"
    ELSE ""

\* load_scan_config: YARA_RULES_PATH is required, the numeric options must parse
LoadScanConfig(e) ==
    IF e.rulesrc = "unset" THEN "SystemExit: YARA_RULES_PATH"
    ELSE IF e.options = "malformed" THEN "ValueError"
    ELSE ""

\* compile_rules that compiles whatever the directory holds
CompileRulesAnyDir(e) ==
    IF e.rulesrc = "absent" THEN "SystemExit: Chemin de règles introuvable"
    ELSE IF e.rulesrc = "syntax" THEN "yara.SyntaxError"
    ELSE ""

\* compile_rules: the path is missing, it is a directory without a rule file,
\* or yara.compile rejects a rule
CompileRules(e) ==
    IF e.rulesrc = "absent" THEN "SystemExit: Chemin de règles introuvable"
    ELSE IF e.rulesrc = "empty_dir" THEN "SystemExit: Aucune règle"
    ELSE IF e.rulesrc = "syntax" THEN "yara.SyntaxError"
    ELSE ""

\* ChunkedJSONLWriter.__init__: self.output_dir.mkdir(parents=True, exist_ok=True)
NewWriter(e) == IF e.outdir = "writer_fails" THEN "OSError: writer mkdir" ELSE ""

\* the first four statements of main, in their order: the exception that ends
\* the run before the try block, "" when the writer is built
StartupFailure(e) ==
    IF LoadContext(e) # "" THEN LoadContext(e)
    ELSE IF LoadScanConfig(e) # "" THEN LoadScanConfig(e)
    ELSE IF CompileRules(e) # "" THEN CompileRules(e)
    ELSE NewWriter(e)

\* main up to the try block
Startup ==
    /\ pc = "start"
    /\ IF StartupFailure(env) # ""
       THEN pc' = "aborted" /\ abortCause' = StartupFailure(env)
       ELSE pc' = "open" /\ UNCHANGED abortCause
    /\ UNCHANGED <<sinkVars, config, rules, target, stack, visited, entries, current,
                   scanned, matches, handed, last, prevOutcome, env, opens, expanded,
                   summary>>

\* the exit status of the process: 0 when main returns, 1 when SystemExit with
\* a message or any other exception leaves it, None while it runs
ExitStatus == IF pc = "done" THEN Some(0) ELSE IF pc = "aborted" THEN Some(1) ELSE None

\* an exception raised inside the try block that is not a TargetError leaves main
EndsRunNever(outcome) == FALSE
EndsRun(outcome) == outcome = "raised"

\* main without `finally: writer.close()`
LeftAsIs(s) == s

\* writer.close()
ClosedSink(s) == [s EXCEPT !.fh = "none"]

CloseWriter ==
    /\ SetSink(ClosedSink(Sink))
    /\ nCloses' = IF fh # "none" THEN nCloses + 1 ELSE nCloses

\* Target.open: it raises TargetError, or walk_files starts from the roots
OpenTarget ==
    /\ pc = "open"
    /\ opens' = opens + 1
    /\ \/ /\ pc' = "aborted"
          /\ abortCause' = "TargetError"
          /\ CloseWriter
          /\ UNCHANGED <<stack, nWrites>>
       \/ /\ pc' = "walk"
          /\ stack' = DetermineRoots(target)
          /\ UNCHANGED <<abortCause, sinkVars>>
    /\ UNCHANGED <<variant, maxLines, config, rules, target, visited, entries, current,
                   scanned, matches, handed, last, prevOutcome, env, expanded, summary>>

\* the entries of a directory as paths
Listing(dir) ==
    LET es == DirEntries(dir.node)
    IN  [i \in 1..Len(es) |-> [parts |-> Append(dir.parts, es[i].name),
                               kind |-> es[i].kind, id |-> es[i].id]]

\* while stack: current = stack.pop() ... entries = list(current.iterdir())
PopDir ==
    /\ pc = "walk"
    /\ entries = <<>>
    /\ stack # <<>>
    /\ LET dir == stack[Len(stack)]
           key == PathKey(dir.parts)
       IN  /\ stack' = SubSeq(stack, 1, Len(stack) - 1)
           /\ IF key \in visited
              THEN UNCHANGED <<visited, entries, expanded>>
              ELSE /\ visited' = visited \cup {key}
                   /\ expanded' = Append(expanded, dir)
                   /\ entries' = IF ListFails(dir.node) THEN <<>> ELSE Listing(dir)
    /\ UNCHANGED <<sinkVars, config, rules, target, pc, current, scanned, matches,
                   abortCause, handed, last, prevOutcome, env, opens, summary>>

\* the pruning test of the walk: entry.name.lower() in config.exclude_dirs
Pruned(name, cfg) == Lower(name) \in cfg.exclude_dirs

\* the loop `for entry in entries` with the try inside it: whatever the entry
\* was, the loop goes on with the entries after it.  The mutant has the try
\* around the loop, so that an entry whose is_dir() raises ends the loop.
RestUnlessRaised(es, kind) == IF kind = "broken" THEN <<>> ELSE Tail(es)
RestAfter(es, kind) == Tail(es)

\* where main goes on after an entry: with the body of its for loop when
\* walk_files yields the entry (`if stat: yield entry, stat`), with the walk
\* otherwise.  The mutant is a walk that goes on without handing the file over.
WalksOn(kind, stat) == "walk"
YieldTo(kind, stat) == IF kind = "file" /\ stat # None THEN "scan" ELSE "walk"

\* for entry in entries: one entry.  The model follows the walk down to paths
\* of MaxDepth parts and stops where a longer one would be pushed.
StepEntry ==
    /\ pc = "walk"
    /\ entries # <<>>
    /\ \E e \in {Head(entries)} :
       \E stat \in {ShouldScanFile(e.parts, FileAttr(e.id), config)} :
           /\ (e.kind = "dir" /\ ~Pruned(e.parts[Len(e.parts)], config))
              => Len(e.parts) <= MaxDepth
           /\ entries' = RestAfter(entries, e.kind)
           /\ stack' = IF e.kind = "dir" /\ ~Pruned(e.parts[Len(e.parts)], config)
                       THEN Append(stack, [parts |-> e.parts, node |-> e.id])
                       ELSE stack
           /\ pc' = YieldTo(e.kind, stat)
           /\ current' = IF e.kind = "file" /\ stat # None
                         THEN Some([parts |-> e.parts, id |-> e.id, stat |-> stat[1]])
                         ELSE current
    /\ UNCHANGED <<sinkVars, config, rules, target, visited, scanned, matches,
                   abortCause, handed, last, prevOutcome, env, opens, expanded, summary>>

\* what the environment decides during one scan_file call
ScanInputs(rs) ==
    {[readOk |-> FALSE, mres |-> [kind |-> "timeout", list |-> <<>>], failAt |-> 0]}
    \cup {[readOk |-> TRUE, mres |-> m, failAt |-> n] :
            m \in MatcherOutcomes(rs), n \in 0..MaxMatches}

\* scanned += 1; matches += scan_file(...); an exception leaves through finally
ScanFile ==
    /\ pc = "scan"
    /\ \E inp \in {x \in ScanInputs(rules) : x.failAt <= Len(x.mres.list)} :
       \E f \in {current[1]} :
       \E r \in {ScanFileResult(FileAttr(f.id), f.stat, Sink,
                                [variant |-> variant, max_lines |-> maxLines],
                                config, inp.readOk, inp.mres, inp.failAt)} :
         /\ scanned' = scanned + 1
         /\ handed' = Append(handed, [parts |-> f.parts, id |-> f.id,
                                      size |-> f.stat.st_size])
         /\ last' = Some([id |-> f.id, event |-> r.event, outcome |-> r.outcome,
                          cause |-> r.cause,
                          calls |-> r.calls, passed |-> r.passed,
                          result |-> r.result, emitted |-> r.emitted,
                          returned |-> r.returned])
         /\ prevOutcome' = IF last = None THEN "" ELSE last[1].event
         /\ nWrites' = nWrites + Len(r.emitted)
         /\ IF EndsRun(r.outcome)
            THEN /\ pc' = "aborted"
                 /\ abortCause' = r.cause
                 /\ SetSink(ClosedSink(r.sink))
                 /\ nCloses' = IF r.sink.fh # "none" THEN nCloses + 1 ELSE nCloses
                 /\ UNCHANGED matches
            ELSE /\ pc' = "walk"
                 /\ matches' = matches + r.returned
                 /\ SetSink(r.sink)
                 /\ UNCHANGED <<abortCause, nCloses>>
    /\ current' = None
    /\ UNCHANGED <<variant, maxLines, config, rules, target, stack, visited, entries,
                   env, opens, expanded, summary>>

\* what main logs after the scan: "Fichiers scannés" and "Matches YARA écrits"
SummaryOfFiles(nScanned, nMatches) ==
    [files_scanned |-> nScanned, matches_written |-> nScanned]
Summary(nScanned, nMatches) == [files_scanned |-> nScanned, matches_written |-> nMatches]

\* the walk is exhausted: finally writer.close(), then the two totals are logged
Finish ==
    /\ pc = "walk"
    /\ entries = <<>>
    /\ stack = <<>>
    /\ pc' = "done"
    /\ CloseWriter
    /\ summary' = Some(Summary(scanned, matches))
    /\ UNCHANGED <<variant, maxLines, nWrites, config, rules, target, stack, visited,
                   entries, current, scanned, matches, abortCause, handed, last,
                   prevOutcome, env, opens, expanded>>

-----------------------------------------------------------------------------
\* Parked values of the variables a specification does not use

ParkedConfig ==
    [include_extensions |-> None, exclude_dirs |-> {}, max_file_size |-> 0,
     max_matches_per_file |-> 0, min_severity |-> None, require_severity |-> FALSE]

ParkedScan ==
    /\ config = ParkedConfig
    /\ rules = {}
    /\ target = {}
    /\ pc = "parked"
    /\ stack = <<>>
    /\ visited = {}
    /\ entries = <<>>
    /\ current = None
    /\ scanned = 0
    /\ matches = 0
    /\ abortCause = ""
    /\ handed = <<>>
    /\ last = None
    /\ prevOutcome = ""
    /\ env = OkEnv
    /\ opens = 0
    /\ expanded = <<>>
    /\ summary = None

ParkedPure == fn = "" /\ arg = None /\ res = None

-----------------------------------------------------------------------------
\* The sink on its own: any sequence of write and close calls

ThresholdValues == (0 - 1) .. MaxThreshold

InitSinkSpec ==
    /\ \E v \in {"yara", "mft"} : \E lim \in ThresholdValues : InitSink(v, lim)
    /\ ParkedScan
    /\ ParkedPure

NextSink ==
    \/ Write /\ UNCHANGED <<scanVars, pureVars>>
    \/ WriteOpenFails /\ UNCHANGED <<scanVars, pureVars>>
    \/ Close /\ UNCHANGED <<scanVars, pureVars>>

SpecSink == InitSinkSpec /\ [][NextSink]_vars

-----------------------------------------------------------------------------
\* The disk scan: main from Target.open on

InitScan(cfgs, rs, targets) ==
    /\ InitSink("yara", ScanThreshold)
    /\ config \in cfgs
    /\ rules = rs
    /\ target \in targets
    /\ pc = "open"
    /\ stack = <<>>
    /\ visited = {}
    /\ entries = <<>>
    /\ current = None
    /\ scanned = 0
    /\ matches = 0
    /\ abortCause = ""
    /\ handed = <<>>
    /\ last = None
    /\ prevOutcome = ""
    /\ env = OkEnv
    /\ opens = 0
    /\ expanded = <<>>
    /\ summary = None
    /\ ParkedPure

NextScan ==
    \/ OpenTarget /\ UNCHANGED pureVars
    \/ PopDir /\ UNCHANGED pureVars
    \/ StepEntry /\ UNCHANGED pureVars
    \/ ScanFile /\ UNCHANGED pureVars
    \/ Finish /\ UNCHANGED pureVars

\* the candidates that exist: "/" and "\\" alone; these and "C:", "C:/", which
\* expose the volume a second time; none
OneRoot == {1, 2}
TwoRoots == {1, 2, 3, 4}
\* only "\\Device\\HarddiskVolume1" exists
DeviceRoot == {6}

\* the emission policies, over one walk
EmitConfigs ==
    [include_extensions : {Some({dotExe})},
     exclude_dirs : {{Lower(nWinSxS)}},
     max_file_size : {MaxFileSize},
     max_matches_per_file : 0..MaxCap,
     min_severity : {None, Some(3)},
     require_severity : BOOLEAN]

SpecScan == InitScan(EmitConfigs, {"Ra", "Rb", "Rc"}, {OneRoot}) /\ [][NextScan]_vars

\* the admission policies, over the walks from each set of roots
WalkConfigs ==
    [include_extensions : {None, Some({dotExe}), Some({dotExe, dotDll})},
     exclude_dirs : {{}, {Lower(nWinSxS)}, {ncl}, {Lower(nUsers), Lower(nWinSxS)}},
     max_file_size : (0 - 1)..MaxFileSize,
     max_matches_per_file : {1},
     min_severity : {None},
     require_severity : {FALSE}]

SpecWalk ==
    InitScan(WalkConfigs, {"Ra"}, {OneRoot, TwoRoots, {}, {NoRootPath}}) /\ [][NextScan]_vars

-----------------------------------------------------------------------------
\* main from its first statement, in every start-up environment

StartupEnvs ==
    [evidence : {"unset", "absent", "present"},
     outdir : {"unset", "context_fails", "writer_fails", "ok"},
     rulesrc : {"unset", "absent", "empty_dir", "syntax", "ok"},
     options : {"malformed", "ok"}]

MainConfig ==
    [include_extensions |-> Some({dotExe}), exclude_dirs |-> {Lower(nWinSxS)},
     max_file_size |-> MaxFileSize, max_matches_per_file |-> 1,
     min_severity |-> None, require_severity |-> FALSE]

InitMain ==
    /\ InitSink("yara", ScanThreshold)
    /\ config = MainConfig
    /\ rules = {"Ra"}
    /\ target \in {OneRoot, {}}
    /\ pc = "start"
    /\ stack = <<>>
    /\ visited = {}
    /\ entries = <<>>
    /\ current = None
    /\ scanned = 0
    /\ matches = 0
    /\ abortCause = ""
    /\ handed = <<>>
    /\ last = None
    /\ prevOutcome = ""
    /\ env \in StartupEnvs
    /\ opens = 0
    /\ expanded = <<>>
    /\ summary = None
    /\ ParkedPure

NextMain ==
    \/ Startup /\ UNCHANGED pureVars
    \/ OpenTarget /\ UNCHANGED pureVars
    \/ PopDir /\ UNCHANGED pureVars
    \/ StepEntry /\ UNCHANGED pureVars
    \/ ScanFile /\ UNCHANGED pureVars
    \/ Finish /\ UNCHANGED pureVars

SpecMain == InitMain /\ [][NextMain]_vars

\* main is one sequential run: it takes its next step as long as it has one
FairMain == InitMain /\ [][NextMain]_vars /\ WF_vars(NextMain)

\* the walk over a tree and over a volume with a symbolic link to its own root
SpecCycle == InitScan({MainConfig}, {"Ra"}, {OneRoot, DeviceRoot}) /\ [][NextScan]_vars

-----------------------------------------------------------------------------
\* HayabusaRunner: download_and_extract_hayabusa

hayabusa    == <<"h","a","y","a","b","u","s","a">>
hayabusaExe == hayabusa \o dotExe
dotZip      == <<".","z","i","p">>
dotTarGz    == <<".","t","a","r",".","g","z">>
dotTgz      == <<".","t","g","z">>

\* binary_name = "hayabusa.exe" if os_name == "windows" else "hayabusa"
BinaryName(os) == IF os = "windows" THEN hayabusaExe ELSE hayabusa

\* str.endswith
EndsWith(s, suffix) ==
    Len(s) >= Len(suffix) /\ SubSeq(s, Len(s) - Len(suffix) + 1, Len(s)) = suffix

\* the mode candidate.chmod(0o755) sets
ExecMode == 493

\* st_mode & 0o111
ExecBits(mode) ==
    (mode % 2) + ((mode \div 8) % 2) + ((mode \div 64) % 2) > 0

\* The download directory is the sequence of what rglob visits below it, in
\* rglob's order: the path of an entry relative to the directory, its kind
\* ("file": is_file() holds, "dir") and its mode.

\* rglob(binary_name) without the test candidate.is_file()
RECURSIVE FindByName(_, _, _)
FindByName(dir, name, i) ==
    IF i > Len(dir) THEN 0
    ELSE IF dir[i].path[Len(dir[i].path)] = name THEN i
    ELSE FindByName(dir, name, i + 1)

\* for candidate in download_dir.rglob(binary_name): if candidate.is_file():
\* the index of the first such candidate from i on, 0 when there is none
RECURSIVE FindBinary(_, _, _)
FindBinary(dir, name, i) ==
    IF i > Len(dir) THEN 0
    ELSE IF dir[i].path[Len(dir[i].path)] = name /\ dir[i].kind = "file" THEN i
    ELSE FindBinary(dir, name, i + 1)

\* if os_name != "windows": candidate.chmod(0o755)
Chmod(dir, i, os) == IF os # "windows" THEN [dir EXCEPT ![i].mode = ExecMode] ELSE dir

\* download_path.unlink(), an OSError being passed over
RECURSIVE Unlink(_, _, _)
Unlink(dir, path, ok) ==
    IF ~ok \/ dir = <<>> THEN dir
    ELSE IF Head(dir).path = path THEN Tail(dir)
    ELSE <<Head(dir)>> \o Unlink(Tail(dir), path, ok)

\* What one call does.  a.dir: the download directory before the call;
\* a.release: what get_hayabusa_download_url gives, the asset's file name or
\* <<>> when it raises SystemExit; a.download: urlretrieve succeeds;
\* a.extract: extractall succeeds, a.archive: the entries it creates;
\* a.chmodOk, a.unlinkOk: chmod and unlink succeed.
\* status: "returned" with the path, "aborted" (SystemExit) or "raised" (the
\* OSError of chmod); lookups and downloads count the calls of
\* get_hayabusa_download_url and of urlretrieve.
DownloadAndExtract(a) ==
    LET name == BinaryName(a.os)
        out(status, path, dir, lookups, downloads) ==
            [status |-> status, path |-> path, dir |-> dir,
             lookups |-> lookups, downloads |-> downloads]
        found(dir, i, lookups, downloads, archive) ==
            IF a.os # "windows" /\ ~a.chmodOk
            THEN out("raised", None, dir, lookups, downloads)
            ELSE out("returned", Some(dir[i].path),
                     IF archive = None THEN Chmod(dir, i, a.os)
                     ELSE Unlink(Chmod(dir, i, a.os), archive[1], a.unlinkOk),
                     lookups, downloads)
        i == FindBinary(a.dir, name, 1)
    IN  IF i > 0 THEN found(a.dir, i, 0, 0, None)
        ELSE IF a.release = None THEN out("aborted", None, a.dir, 1, 0)
        ELSE IF ~a.download THEN out("aborted", None, a.dir, 1, 1)
        ELSE LET filename == a.release[1]
                 dir1 == Append(a.dir, [path |-> <<filename>>, kind |-> "file", mode |-> 420])
             IN  IF ~(EndsWith(filename, dotZip) \/ EndsWith(filename, dotTarGz)
                        \/ EndsWith(filename, dotTgz))
                 THEN out("aborted", None, dir1, 1, 1)
                 ELSE IF ~a.extract THEN out("aborted", None, dir1, 1, 1)
                 ELSE LET dir2 == dir1 \o a.archive
                          j == FindBinary(dir2, name, 1)
                      IN  IF j = 0 THEN out("aborted", None, dir2, 1, 1)
                          ELSE found(dir2, j, 1, 1, Some(<<filename>>))

-----------------------------------------------------------------------------
\* The pure functions on drawn inputs

MaxSeverity == 3
MaxOccurrences == 3
MaxStrings == 2
MaxSampleBytes == 4

MetaSamples ==
    {<<>>, RuleMeta("Rb"), RuleMeta("Rd"),
     << [key |-> kScore, value |-> Num(1)], [key |-> kSeverity, value |-> Num(3)] >>,
     << [key |-> kAuthor, value |-> Str(<<"9">>)],
        [key |-> kSeverity, value |-> Str(<<"h","i","g","h">>)],
        [key |-> <<"C","o","n","f","i","d","e","n","c","e">>, value |-> Text],
        [key |-> kLevel, value |-> Str(<<" ","2"," ">>)],
        [key |-> kWeight, value |-> Num(0)] >>,
     << [key |-> kSeverity, value |-> Str(<<>>)],
        [key |-> kAuthor, value |-> Num(3)] >>,
     << [key |-> kScore, value |-> Str(<<"1","0">>)] >>}
    \cup {<< [key |-> k, value |-> v] >> :
            k \in {kSeverity, <<"S","c","o","r","e">>, kAuthor},
            v \in {Text} \cup {Num(n) : n \in 0..MaxSeverity}}

PolicyInputs ==
    [meta : MetaSamples,
     min_severity : {None} \cup {Some(n) : n \in 0..MaxSeverity},
     require_severity : BOOLEAN]

NameSamples ==
    { <<"a",".","e","x","e">>, <<"A",".","E","X","E">>, <<"a",".","t","x","t">>,
      <<"a",".","D","l","l">>, <<"a">>, <<".","e","x","e">>, <<"e","x","e",".">>,
      <<"a",".","e","x","e",".","t","x","t">> }

QualifierInputs ==
    [name : NameSamples,
     dir : {<<nSlash, ncl>>, <<nSlash, nWinSxS, nSub>>},
     size : 0..(MaxFileSize + 1),
     statFails : BOOLEAN,
     include_extensions : {None, Some({dotExe}), Some({dotExe, dotDll}), Some({dotTxt})},
     exclude_dirs : {{}, {Lower(nWinSxS)}},
     max_file_size : 1..MaxFileSize]

\* values of YARA_INCLUDE_EXT: unset, "", "*", " * ", "exe", ".EXE", "exe, .Dll",
\* "Exe,exe", "exe,,dll", "exe,*", ",", " "
ExtensionInputs ==
    [value : {None, Some(<<>>), Some(<<"*">>), Some(<<" ","*"," ">>),
              Some(<<"e","x","e">>), Some(<<".","E","X","E">>),
              Some(<<"e","x","e",","," ",".","D","l","l">>),
              Some(<<"E","x","e",",","e","x","e">>),
              Some(<<"e","x","e",",",",","d","l","l">>),
              Some(<<"e","x","e",",","*">>),
              Some(<<",">>), Some(<<" ">>)}]

\* occurrences a match can carry: (offset, identifier, data)
Occurrences ==
    { [offset |-> 0,  identifier |-> "$mz",
       data |-> [kind |-> "bytes", val |-> <<77, 90, 144>>]],
      [offset |-> 7,  identifier |-> "$op",
       data |-> [kind |-> "bytes", val |-> <<255, 0, 16, 131>>]],
      [offset |-> 9,  identifier |-> "$mz",
       data |-> [kind |-> "bytes", val |-> <<>>]],
      [offset |-> 12, identifier |-> "$s",
       data |-> [kind |-> "str", val |-> <<"c","m","d",".","e">>]] }

StringsInputs ==
    [strings : DistinctSeqs(Occurrences, MaxOccurrences),
     max_strings : (0 - 1)..MaxStrings,
     string_sample_bytes : (0 - 1)..MaxSampleBytes]

\* download directories and archive contents: nothing; the binary, not
\* executable; a directory named as the binary and the binary below it; the
\* other platform's binary; a versioned binary only; a directory named as the
\* binary only; the Windows binary below a directory
TreeSamples ==
    { <<>>,
      << [path |-> <<hayabusa>>, kind |-> "file", mode |-> 420] >>,
      << [path |-> <<hayabusa>>, kind |-> "dir", mode |-> 493],
         [path |-> <<hayabusa, hayabusa>>, kind |-> "file", mode |-> 384] >>,
      << [path |-> <<hayabusaExe>>, kind |-> "file", mode |-> 420] >>,
      << [path |-> <<hayabusa \o <<"-","3">> >>, kind |-> "file", mode |-> 493] >>,
      << [path |-> <<hayabusa>>, kind |-> "dir", mode |-> 493] >>,
      << [path |-> <<hayabusa \o <<"-","3">> >>, kind |-> "dir", mode |-> 493],
         [path |-> <<hayabusa \o <<"-","3">>, hayabusaExe>>, kind |-> "file", mode |-> 420],
         [path |-> <<hayabusa \o <<"-","3">>, hayabusa>>, kind |-> "file", mode |-> 420] >> }

\* asset names: h.zip, h.tar.gz, h.tgz, h.zip.sha256
AssetNames ==
    { <<"h">> \o dotZip, <<"h">> \o dotTarGz, <<"h">> \o dotTgz,
      <<"h">> \o dotZip \o <<".","s","h","a","2","5","6">> }

FetchInputs ==
    [os : {"linux", "mac", "windows"},
     dir : TreeSamples,
     release : {None} \cup {Some(n) : n \in AssetNames},
     download : BOOLEAN,
     extract : BOOLEAN,
     archive : TreeSamples,
     chmodOk : BOOLEAN,
     unlinkOk : BOOLEAN]

InitPure ==
    /\ InitSink("yara", ScanThreshold)
    /\ ParkedScan
    /\ \/ fn = "policy" /\ arg \in PolicyInputs
       \/ fn = "fetch" /\ arg \in FetchInputs
       \/ fn = "qualifier" /\ arg \in QualifierInputs
       \/ fn = "extensions" /\ arg \in ExtensionInputs
       \/ fn = "strings" /\ arg \in StringsInputs
    /\ res = None

\* extract_severity, then the severity policy, on one match
ApplyPolicy ==
    /\ fn = "policy"
    /\ res = None
    /\ \E sev \in {ExtractSeverity(arg.meta)} :
         res' = Some([severity |-> sev,
                      dropped |-> Dropped(sev, [ParkedConfig EXCEPT
                                      !.min_severity = arg.min_severity,
                                      !.require_severity = arg.require_severity])])
    /\ UNCHANGED <<fn, arg>>

\* should_scan_file on one file
ApplyQualifier ==
    /\ fn = "qualifier"
    /\ res = None
    /\ res' = Some([admitted |->
                      ShouldScanFile(Append(arg.dir, arg.name),
                                     [size |-> arg.size, content |-> arg.size,
                                      mtime |-> "ok", statFails |-> arg.statFails],
                                     [ParkedConfig EXCEPT
                                        !.include_extensions = arg.include_extensions,
                                        !.exclude_dirs = arg.exclude_dirs,
                                        !.max_file_size = arg.max_file_size]) # None])
    /\ UNCHANGED <<fn, arg>>

\* load_scan_config: include_extensions = parse_extensions(os.getenv("YARA_INCLUDE_EXT"))
ApplyExtensions ==
    /\ fn = "extensions"
    /\ res = None
    /\ res' = Some([include_extensions |-> ParseExtensions(arg.value)])
    /\ UNCHANGED <<fn, arg>>

\* scan_file: "strings": format_strings(match, config)
ApplyStrings ==
    /\ fn = "strings"
    /\ res = None
    /\ res' = Some([strings |-> FormatStrings(arg.strings,
                                   [max_strings |-> arg.max_strings,
                                    string_sample_bytes |-> arg.string_sample_bytes])])
    /\ UNCHANGED <<fn, arg>>

\* download_and_extract_hayabusa on one download directory
ApplyFetch ==
    /\ fn = "fetch"
    /\ res = None
    /\ res' = Some(DownloadAndExtract(arg))
    /\ UNCHANGED <<fn, arg>>

NextPure ==
    \/ ApplyStrings /\ UNCHANGED <<sinkVars, scanVars>>
    \/ ApplyFetch /\ UNCHANGED <<sinkVars, scanVars>>
    \/ ApplyPolicy /\ UNCHANGED <<sinkVars, scanVars>>
    \/ ApplyQualifier /\ UNCHANGED <<sinkVars, scanVars>>
    \/ ApplyExtensions /\ UNCHANGED <<sinkVars, scanVars>>

SpecPure == InitPure /\ [][NextPure]_vars

-----------------------------------------------------------------------------
\* Properties

\* the entries of the current directory that would still qualify
PendingCandidates ==
    {i \in 1..Len(entries) :
        /\ entries[i].kind = "file"
        /\ ShouldScanFile(entries[i].parts, FileAttr(entries[i].id), config) # None}

\* C1: no failure confined to one candidate file (here the conversion of its
\* modification time) aborts the scan: the candidate files that follow it are
\* still handed to scan_file.  Stated as: main is never ended by such an
\* exception while a qualifying file of the directory being walked is pending.
C1_LaterCandidatesStillScanned ==
    (pc = "aborted" /\ abortCause = "mtime") => PendingCandidates = {}

\* C2: a matcher timeout, a matcher error or an unreadable file contributes no
\* record and leaves the sink (file index, line count, segments, handle) as it
\* was, and the scan goes on.
C2_FailedFileLeavesSinkAlone ==
    [][(scanned' = scanned + 1
        /\ last'[1].event \in {"timeout", "error", "unreadable"})
       => /\ last'[1].returned = 0
          /\ last'[1].emitted = <<>>
          /\ matches' = matches
          /\ fileIndex' = fileIndex
          /\ lineCount' = lineCount
          /\ segments' = segments
          /\ fh' = fh
          /\ pc' = "walk"]_vars

\* a file scanned right after a matcher timeout wrote records
C2_RecordsAfterTimeout ==
    /\ last # None
    /\ prevOutcome = "timeout"
    /\ last[1].outcome = "matched"
    /\ last[1].returned > 0

\* C3: the records scan_file writes for a file number at most
\* max_matches_per_file, whatever its value, 0 included.
C3_AtMostCapRecords ==
    last # None => Len(last[1].emitted) <= config.max_matches_per_file

\* the severity policy in the words of the spec: dropped when require_severity
\* is set and the severity is absent, or when the severity is present and below
\* a configured min_severity
PolicyDrops(sev, minSev, require) ==
    \/ require /\ sev = None
    \/ sev # None /\ minSev # None /\ sev[1] < minSev[1]

RECURSIVE PassingRules(_, _)
PassingRules(ms, cfg) ==
    IF ms = <<>> THEN <<>>
    ELSE LET rest == PassingRules(Tail(ms), cfg)
         IN  IF PolicyDrops(ExtractSeverity(RuleMeta(Head(ms))), cfg.min_severity,
                            cfg.require_severity)
             THEN rest
             ELSE <<Head(ms)>> \o rest

EmitsFirstWithinCap(l) ==
    LET passing == PassingRules(l.result, config)
        n == Min(Len(passing), config.max_matches_per_file)
    IN  /\ l.emitted = SubSeq(passing, 1, n)
        /\ l.calls = 1

\* C4: with a cap >= 1, a file whose match run returned k matches passing the
\* severity policy gets exactly min(k, cap) records, the first such matches in
\* the matcher's order, and the matcher ran once.  (A write that cannot open its
\* segment is the sink's failure, not this claim's case.)
C4_EmitsMinOfPassingAndCap ==
    (/\ last # None
     /\ config.max_matches_per_file >= 1
     /\ last[1].outcome \in {"matched", "raised"}
     /\ last[1].cause # "sink")
    => EmitsFirstWithinCap(last[1])

\* the same for the calls of scan_file that return
C4_ReturnedCallsEmitMin ==
    (/\ last # None
     /\ config.max_matches_per_file >= 1
     /\ last[1].outcome = "matched")
    => /\ EmitsFirstWithinCap(last[1])
       /\ last[1].returned = Len(last[1].emitted)

\* C5: with a threshold N >= 1, after M writes and no close, there are
\* ceil(M/N) segments, all but the last of N lines, the last of M mod N lines,
\* or N when M is a positive multiple of N.
C5_RotationCounts ==
    (maxLines >= 1 /\ nCloses = 0)
    => LET N == maxLines
           M == nWrites
           k == Len(segments)
       IN  /\ k = (M + N - 1) \div N
           /\ \A i \in 1..(k - 1) : segments[i].lines = N
           /\ k > 0 => segments[k].lines = IF M % N = 0 THEN N ELSE M % N

\* several rotations happened and the last segment is partly filled
C5_RotatedTwice ==
    /\ maxLines >= 2
    /\ nCloses = 0
    /\ Len(segments) >= 3
    /\ nWrites % maxLines # 0

\* C6: every segment holds at most max_lines lines, for every integer max_lines.
C6_SegmentsWithinThreshold ==
    \A i \in 1..Len(segments) : segments[i].lines <= maxLines

\* C7: no file handed to scan_file has a path segment that equals a deny-set
\* entry case-insensitively, at any depth.
C7_NoDeniedSegmentScanned ==
    \A i \in 1..Len(handed) :
        \A j \in 1..Len(handed[i].parts) :
            \A d \in config.exclude_dirs : Lower(handed[i].parts[j]) # Lower(d)

\* the root "C:" carries a denied name: the walk listed it and the directory
\* Users below it, which held admissible files, and handed none of them over
C7_DeniedRootWalked ==
    /\ pc = "done"
    /\ ncl \in config.exclude_dirs
    /\ config.include_extensions = None
    /\ config.max_file_size = MaxFileSize
    /\ <<ncl, Lower(nUsers)>> \in visited
    /\ handed = <<>>

\* C8: every file handed to scan_file has 0 < size <= max_file_size, and at
\* most max_file_size bytes of it reach the matcher.
C8_SizeWithinCeiling ==
    /\ \A i \in 1..Len(handed) :
          0 < handed[i].size /\ handed[i].size <= config.max_file_size
    /\ last # None => last[1].passed <= config.max_file_size

\* the file f2 holds more bytes than the ceiling: the read stopped at the ceiling
C8_ReadStoppedAtCeiling ==
    /\ last # None
    /\ last[1].id = "f2"
    /\ last[1].calls = 1
    /\ last[1].passed = config.max_file_size
    /\ FileAttr("f2").content > config.max_file_size

\* C9: a match is dropped exactly when require_severity is set and its severity
\* is absent, or its severity is present and below a configured min_severity;
\* a match without severity under min_severity alone, and a match whose
\* severity equals min_severity, are retained.
C9_SeverityPolicy ==
    (fn = "policy" /\ res # None)
    => LET sev == res[1].severity
       IN  /\ res[1].dropped <=> PolicyDrops(sev, arg.min_severity, arg.require_severity)
           /\ (sev = None /\ ~arg.require_severity) => ~res[1].dropped
           /\ (sev # None /\ sev = arg.min_severity) => ~res[1].dropped

\* a match whose severity equals min_severity was retained
C9_EqualSeverityKept ==
    /\ fn = "policy"
    /\ res # None
    /\ res[1].severity # None
    /\ res[1].severity = arg.min_severity
    /\ arg.require_severity
    /\ ~res[1].dropped

Admissible(a) ==
    /\ ~a.statFails
    /\ 0 < a.size
    /\ a.size <= a.max_file_size
    /\ \A j \in 1..Len(a.dir) : Lower(a.dir[j]) \notin a.exclude_dirs
    /\ Lower(a.name) \notin a.exclude_dirs

\* C10: for a file of admissible size and path, the qualifier admits it exactly
\* when the allow-set is absent or holds its lower-cased extension; the
\* allow-set {.exe} admits a.exe and A.EXE and rejects a.txt.
C10_ExtensionFilter ==
    (fn = "qualifier" /\ res # None /\ Admissible(arg))
    => /\ res[1].admitted <=>
            \/ arg.include_extensions = None
            \/ Lower(Suffix(arg.name)) \in arg.include_extensions[1]
       /\ arg.include_extensions = Some({dotExe})
            => /\ arg.name = <<"a",".","e","x","e">> => res[1].admitted
               /\ arg.name = <<"A",".","E","X","E">> => res[1].admitted
               /\ arg.name = <<"a",".","t","x","t">> => ~res[1].admitted

\* A.EXE was admitted under the allow-set {.exe}
C10_UpperCaseAdmitted ==
    /\ fn = "qualifier"
    /\ res # None
    /\ Admissible(arg)
    /\ arg.name = <<"A",".","E","X","E">>
    /\ arg.include_extensions = Some({dotExe})
    /\ res[1].admitted

\* the extensions a value lists: its comma-separated items, stripped, the empty
\* ones left out
Listed(text) ==
    {Strip(Split(text)[i]) : i \in {j \in 1..Len(Split(text)) : Strip(Split(text)[j]) # <<>>}}

\* the wildcard cases of the claim: the value lists `*`, or it lists nothing
\* (unset, empty, or only separators and blanks)
WildcardValue(value) ==
    \/ value = None
    \/ Listed(value[1]) = {}
    \/ <<"*">> \in Listed(value[1])

\* the listed extensions, lower-cased and each starting with a dot
ListedDotted(text) ==
    {IF e[1] = "." THEN Lower(e) ELSE <<".">> \o Lower(e) : e \in Listed(text)}

\* C11 as stated: the wildcard policy (an absent allow-set) when the value lists
\* `*` or is empty, and otherwise the set of the listed extensions, each
\* lower-cased and starting with a dot.
C11_WildcardOrListed ==
    (fn = "extensions" /\ res # None)
    => IF WildcardValue(arg.value)
       THEN res[1].include_extensions = None
       ELSE res[1].include_extensions = Some(ListedDotted(arg.value[1]))

\* C11: an unset or empty value yields the default extensions; a value that
\* lists `*`, or is not empty and lists nothing, yields the wildcard policy; any
\* other value yields the listed extensions, lower-cased and starting with a dot.
C11_DefaultWildcardOrListed ==
    (fn = "extensions" /\ res # None)
    => /\ IF arg.value = None \/ arg.value = Some(<<>>)
          THEN res[1].include_extensions = Some(DEFAULT_EXTENSIONS)
          ELSE IF WildcardValue(arg.value)
          THEN res[1].include_extensions = None
          ELSE res[1].include_extensions = Some(ListedDotted(arg.value[1]))
       /\ arg.value = Some(<<" ","*"," ">>) => res[1].include_extensions = None
       /\ arg.value = Some(<<",">>) => res[1].include_extensions = None
       /\ arg.value = Some(<<"E","x","e",",","e","x","e">>)
            => res[1].include_extensions = Some({dotExe})
       /\ arg.value = Some(<<"e","x","e",",",",","d","l","l">>)
            => res[1].include_extensions = Some({dotExe, dotDll})

\* "exe, .Dll" gave the allow-set {.exe, .dll}
C11_MixedListNormalised ==
    /\ fn = "extensions"
    /\ res # None
    /\ arg.value = Some(<<"e","x","e",","," ",".","D","l","l">>)
    /\ res[1].include_extensions = Some({dotExe, dotDll})

\* the bytes a base64 text stands for
RECURSIVE B64Decode(_)
B64Decode(text) ==
    IF Len(text) < 4 THEN <<>>
    ELSE LET ix(c) == IF c = "=" THEN 0 ELSE (CHOOSE i \in 1..64 : B64Alphabet[i] = c) - 1
             i1 == ix(text[1])
             i2 == ix(text[2])
             i3 == ix(text[3])
             i4 == ix(text[4])
             b1 == i1 * 4 + (i2 \div 16)
             b2 == (i2 % 16) * 16 + (i3 \div 4)
             b3 == (i3 % 4) * 64 + i4
         IN  (IF text[3] = "=" THEN <<b1>>
              ELSE IF text[4] = "=" THEN <<b1, b2>>
              ELSE <<b1, b2, b3>>)
             \o B64Decode(SubSeq(text, 5, Len(text)))

\* what a sample was built from: the bytes it encodes, or its characters
SampleSource(occ, snippet) ==
    IF occ.data.kind = "bytes" THEN B64Decode(snippet) ELSE snippet

IsPrefix(p, s) == Len(p) <= Len(s) /\ p = SubSeq(s, 1, Len(p))

\* a count is at most a cap; no count is below zero, so a negative cap allows none
AtMost(n, cap) == n <= (IF cap < 0 THEN 0 ELSE cap)

SamplesWithinCaps ==
    LET out == res[1].strings
    IN  /\ AtMost(Len(out), arg.max_strings)
        /\ Len(out) <= Len(arg.strings)
        /\ \A i \in 1..Len(out) :
              /\ out[i].identifier = arg.strings[i].identifier
              /\ out[i].offset = arg.strings[i].offset
              /\ IsPrefix(SampleSource(arg.strings[i], out[i].snippet_b64),
                          arg.strings[i].data.val)
              /\ AtMost(Len(SampleSource(arg.strings[i], out[i].snippet_b64)),
                        arg.string_sample_bytes)

\* C12: a record carries at most max_strings samples, those of the first
\* occurrences in the matcher's order, and each sample is built from a prefix
\* of at most string_sample_bytes bytes of its occurrence.
C12_SamplesWithinCaps ==
    (fn = "strings" /\ res # None) => SamplesWithinCaps

\* the same for the values of the two caps that are not negative
C12_NonNegativeCaps ==
    (fn = "strings" /\ res # None /\ arg.max_strings >= 0 /\ arg.string_sample_bytes >= 0)
    => /\ SamplesWithinCaps
       /\ Len(res[1].strings) = Min(arg.max_strings, Len(arg.strings))
       /\ \A i \in 1..Len(res[1].strings) :
             Len(SampleSource(arg.strings[i], res[1].strings[i].snippet_b64))
               = Min(arg.string_sample_bytes, Len(arg.strings[i].data.val))

\* the files below a directory that the qualifier admits, reached through the
\* directories whose name is not in the deny-set: [id, parts]
RECURSIVE FilesBelow(_, _)
FilesBelow(dir, cfg) ==
    IF ListFails(dir.node) THEN {}
    ELSE LET es == Listing(dir)
             here == {[id |-> es[i].id, parts |-> es[i].parts] :
                        i \in {j \in 1..Len(es) :
                                 /\ es[j].kind = "file"
                                 /\ ShouldScanFile(es[j].parts, FileAttr(es[j].id), cfg) # None}}
             subs == {i \in 1..Len(es) :
                        /\ es[i].kind = "dir"
                        /\ Lower(es[i].parts[Len(es[i].parts)]) \notin cfg.exclude_dirs}
         IN  here \cup UNION {FilesBelow([parts |-> es[i].parts, node |-> es[i].id], cfg) :
                                i \in subs}

\* the files the scan has to hand over, by identity
ReachableFiles ==
    LET roots == DetermineRoots(target)
    IN  {f.id : f \in UNION {FilesBelow(roots[k], config) : k \in 1..Len(roots)}}

TimesHanded(id) == Cardinality({i \in 1..Len(handed) : handed[i].id = id})

\* C13: at the end of a scan every reachable qualifying file has been handed to
\* scan_file exactly once, and no other file has.
C13_EachReachableFileOnce ==
    pc = "done"
    => /\ \A id \in ReachableFiles : TimesHanded(id) = 1
       /\ \A i \in 1..Len(handed) : handed[i].id \in ReachableFiles

\* its two halves: no reachable qualifying file is missed; none is handed twice
C13_NoneMissed ==
    pc = "done" => \A id \in ReachableFiles : TimesHanded(id) >= 1
C13_NoneTwice ==
    \A i \in 1..Len(handed) : TimesHanded(handed[i].id) = 1

\* the candidates of the target with the path key k
CandidatesWithKey(k) ==
    {i \in 1..Len(ROOT_CANDIDATES) : i \in target /\ PathKey(ROOT_CANDIDATES[i].parts) = k}

RootsWithKey(roots, k) == {j \in 1..Len(roots) : PathKey(roots[j].parts) = k}

TimesExpanded(k) ==
    Cardinality({j \in 1..Len(expanded) :
                   Len(expanded[j].parts) = Len(k) /\ PathKey(expanded[j].parts) = k})

\* C14: candidates whose path strings are equal case-insensitively give one root
\* in determine_roots' result, and the walk calls iterdir on that root at most
\* once, exactly once by the end of the scan.
C14_EqualCandidatesOneRoot ==
    pc \in {"walk", "scan", "done"}
    => \A roots \in {DetermineRoots(target)} :
       \A k \in {PathKey(ROOT_CANDIDATES[i].parts) : i \in target \ {NoRootPath}} :
           Cardinality(CandidatesWithKey(k)) >= 2
           => /\ Cardinality(RootsWithKey(roots, k)) = 1
              /\ TimesExpanded(k) <= 1
              /\ pc = "done" => TimesExpanded(k) = 1

\* "C:" and "C:/" both exist: one root C:, listed once, and its files reached
C14_BothSpellingsOneWalk ==
    /\ pc = "done"
    /\ target = TwoRoots
    /\ Cardinality(CandidatesWithKey(<<ncl>>)) = 2
    /\ Len(DetermineRoots(target)) = 2
    /\ TimesExpanded(<<ncl>>) = 1
    /\ TimesExpanded(<<nSlash>>) = 1
    /\ \E i \in 1..Len(handed) : handed[i].parts[1] = nCu

\* the result of determine_roots is the existing candidates in their order:
\* an increasing choice of candidates of the target
KeepsCandidateOrder(roots) ==
    \E f \in [1..Len(roots) -> 1..Len(ROOT_CANDIDATES)] :
        /\ \A j \in 1..Len(roots) : f[j] \in target /\ roots[j] = ROOT_CANDIDATES[f[j]]
        /\ \A j \in 1..(Len(roots) - 1) : f[j] < f[j + 1]

NoCandidateExists == target \cap (1..Len(ROOT_CANDIDATES)) = {}

\* a scan of a filesystem without any root goes through without error and
\* touches nothing
EmptyScanQuiet ==
    NoCandidateExists
    => /\ pc # "scan"
       /\ pc = "aborted" => abortCause = "TargetError"
       /\ scanned = 0 /\ matches = 0 /\ nWrites = 0 /\ segments = <<>>

\* C15 as stated: with no candidate the result is the top-level root alone
C15_FallbackAlways ==
    pc \in {"walk", "scan", "done"}
    => LET roots == DetermineRoots(target)
       IN  /\ ~NoCandidateExists => KeepsCandidateOrder(roots)
           /\ NoCandidateExists => Len(roots) = 1 /\ roots[1].parts = <<nSlash>>
           /\ EmptyScanQuiet

\* C15: root discovery never fails: the candidates that do not resolve or do
\* not exist are skipped, the others are kept in the candidates' order; with no
\* candidate the result is the top-level root alone, or nothing when the path
\* of the top-level root cannot be built either; the scan of an empty
\* filesystem ends with zero files scanned and zero records, without error.
C15_RootDiscoveryNeverFails ==
    pc \in {"walk", "scan", "done"}
    => LET roots == DetermineRoots(target)
       IN  /\ ~NoCandidateExists => KeepsCandidateOrder(roots)
           /\ (NoCandidateExists /\ NoRootPath \notin target)
                 => Len(roots) = 1 /\ roots[1].parts = <<nSlash>>
           /\ (NoCandidateExists /\ NoRootPath \in target) => roots = <<>>
           /\ EmptyScanQuiet

\* no candidate exists: the fallback root was tried, and the scan ended with
\* nothing scanned and nothing written
C15_EmptyFilesystemDone ==
    /\ pc = "done"
    /\ target = {}
    /\ Len(expanded) = 1
    /\ expanded[1].parts = <<nSlash>>
    /\ scanned = 0
    /\ matches = 0
    /\ segments = <<>>

\* the start-up failures of the claim: the evidence path or the rule source is
\* missing, the rule directory holds no rule file, or a rule does not compile
ConfigOrRulesFail ==
    env.evidence \in {"unset", "absent"} \/ env.rulesrc \in {"unset", "absent", "empty_dir", "syntax"}

EvidenceUntouched ==
    /\ opens = 0
    /\ expanded = <<>>
    /\ visited = {}
    /\ scanned = 0
    /\ handed = <<>>
    /\ segments = <<>>
    /\ nWrites = 0

\* C16: when the evidence path or the rule source is missing, the rule
\* directory holds no rule file or compilation fails, Target.open is never
\* called, no directory is listed, no file is scanned, no segment is created,
\* and the run ends with exit status 1.
C16_StartupFailureBeforeOpen ==
    ConfigOrRulesFail
    => /\ []EvidenceUntouched
       /\ <>[](pc = "aborted" /\ ExitStatus = Some(1))

\* a rule that does not compile ended the run, everything else being in order
C16_SyntaxErrorEndsRun ==
    /\ pc = "aborted"
    /\ env = [OkEnv EXCEPT !.rulesrc = "syntax"]
    /\ abortCause = "yara.SyntaxError"
    /\ EvidenceUntouched

\* the sink failed: its constructor could not create the output directory, or
\* a write could not open its segment
SinkFailed ==
    \/ pc # "start" /\ StartupFailure(env) = NewWriter(env) /\ NewWriter(env) # ""
    \/ last # None /\ last[1].cause = "sink"

\* C17: once the sink has failed to create its directory or to open a segment,
\* the run is over with exit status 1, and from then on no file is scanned and
\* no record is written.
C17_SinkFailureFatal ==
    /\ [](SinkFailed => (pc = "aborted" /\ ExitStatus = Some(1)))
    /\ [][SinkFailed => /\ scanned' = scanned
                         /\ handed' = handed
                         /\ nWrites' = nWrites
                         /\ segments' = segments]_vars

\* a write could not open the second segment: the run ended with the first
\* segment full, the sink closed and a directory left on the stack
C17_SecondSegmentNotOpened ==
    /\ pc = "aborted"
    /\ abortCause = "sink"
    /\ Len(segments) = 1
    /\ segments[1].lines = maxLines
    /\ nWrites = maxLines
    /\ fh = "none"
    /\ stack # <<>>

\* the number a text of decimal digits stands for, -1 when it is not one
RECURSIVE NumberOf(_)
NumberOf(ds) ==
    IF ds = <<>> THEN 0 - 1
    ELSE IF \E i \in 1..Len(ds) : \A d \in 1..10 : DigitChars[d] # ds[i] THEN 0 - 1
    ELSE LET lastDigit == (CHOOSE d \in 1..10 : DigitChars[d] = ds[Len(ds)]) - 1
         IN  IF Len(ds) = 1 THEN lastDigit
             ELSE NumberOf(SubSeq(ds, 1, Len(ds) - 1)) * 10 + lastDigit

\* name is the prefix of the variant, an underscore, the ordinal in at least
\* `width` decimal digits padded with zeros, and .jsonl
WellNamed(v, name, ord) ==
    LET pre == BaseName(v) \o <<"_">>
        ext == <<".","j","s","o","n","l">>
        mid == SubSeq(name, Len(pre) + 1, Len(name) - Len(ext))
    IN  /\ Len(name) >= Len(pre) + OrdinalWidth(v) + Len(ext)
        /\ SubSeq(name, 1, Len(pre)) = pre
        /\ SubSeq(name, Len(name) - Len(ext) + 1, Len(name)) = ext
        /\ NumberOf(mid) = ord
        /\ (Len(mid) > OrdinalWidth(v)) => mid[1] # "0"

SegmentsWellNamed ==
    \A i \in 1..Len(segments) :
        WellNamed(variant, SegmentName(variant, segments[i].ord), segments[i].ord)

\* C18: every segment is named prefix, underscore, zero-padded ordinal, and
\* the ordinals of the segments of a sink go up by exactly one from each
\* segment to the next in creation order (here for the thresholds of at least
\* one line).
C18_OrdinalsStepByOne ==
    maxLines >= 1
    => /\ SegmentsWellNamed
       /\ \A i \in 1..(Len(segments) - 1) : segments[i + 1].ord = segments[i].ord + 1

\* C18: every segment is named prefix, underscore, zero-padded ordinal, and
\* the ordinals of the segments of a sink strictly increase in creation order;
\* they go up by exactly one in the writer that advances its index after the
\* open, and in MftExtract's, which advances it before, as long as no open
\* has failed.
C18_OrdinalsIncrease ==
    /\ SegmentsWellNamed
    /\ \A i \in 1..(Len(segments) - 1) : segments[i + 1].ord > segments[i].ord
    /\ (variant = "yara" \/ fileIndex = Len(segments))
         => \A i \in 1..(Len(segments) - 1) : segments[i + 1].ord = segments[i].ord + 1

\* the third segment of the disk scan's sink is yara_disk_matches_00002.jsonl
C18_ThirdSegmentNamed ==
    /\ variant = "yara"
    /\ maxLines >= 1
    /\ Len(segments) = 3
    /\ segments[3].ord = 2
    /\ SegmentName(variant, segments[3].ord) =
         <<"y","a","r","a","_","d","i","s","k","_","m","a","t","c","h","e","s","_",
           "0","0","0","0","2",".","j","s","o","n","l">>

\* C19 as stated: a scan that ran to completion left at least one segment.
C19_CompletedScanLeavesSegment ==
    pc = "done" => Len(segments) >= 1

\* C19: a scan that ran to completion and wrote M records under the threshold
\* N left ceil(M/N) segments: one or more when it wrote a record, none when it
\* produced no detection.
C19_SegmentsOnlyForRecords ==
    pc = "done"
    => /\ Len(segments) = (nWrites + maxLines - 1) \div maxLines
       /\ nWrites = 0 <=> segments = <<>>
       /\ nWrites = matches

\* files were scanned, none gave a record, and the scan left no segment
C19_NoDetectionNoSegment ==
    /\ pc = "done"
    /\ scanned >= 2
    /\ config.max_matches_per_file >= 1
    /\ matches = 0
    /\ segments = <<>>

\* C20 as stated: a run that completed reported the files scanned, the
\* detections written and the files skipped by reason.
C20_SummaryWithSkips ==
    pc = "done"
    => /\ summary # None
       /\ {"files_scanned", "matches_written", "files_skipped"} \subseteq DOMAIN summary[1]

\* C20: a run reports when it completes, and only then, and what it reports is
\* the number of files scanned and the number of detections written, whatever
\* happened to the single files.
C20_SummaryOfTwoTotals ==
    /\ pc = "done" => /\ summary # None
                       /\ DOMAIN summary[1] = {"files_scanned", "matches_written"}
                       /\ summary[1].files_scanned = scanned
                       /\ summary[1].matches_written = matches
    /\ pc # "done" => summary = None

\* the run completed and reported although its last two files failed, one by a
\* matcher error and one by a timeout
C20_ReportedAfterFileErrors ==
    /\ pc = "done"
    /\ summary # None
    /\ prevOutcome = "error"
    /\ last # None
    /\ last[1].event = "timeout"
    /\ summary[1].files_scanned > summary[1].matches_written

-----------------------------------------------------------------------------
\* C21

\* the lines the segments of the output directory hold
RECURSIVE LinesIn(_)
LinesIn(segs) == IF segs = <<>> THEN 0 ELSE Head(segs).lines + LinesIn(Tail(segs))

\* C21: at normal completion the reported record total is the number of lines
\* the segments hold, and the reported files-scanned total is the number of
\* files handed to scan_file, the failed ones included.
C21_TotalsMatchSinkAndHandover ==
    pc = "done"
    => /\ summary # None
       /\ summary[1].matches_written = LinesIn(segments)
       /\ summary[1].files_scanned = Len(handed)

\* a completed scan that wrote two segments and whose last two files failed,
\* one unreadable and one by a timeout
C21_TotalsAfterFailedFiles ==
    /\ pc = "done"
    /\ Len(segments) >= 2
    /\ prevOutcome = "unreadable"
    /\ last # None
    /\ last[1].event = "timeout"
    /\ summary # None
    /\ summary[1].files_scanned = Len(handed)
    /\ summary[1].files_scanned > 2

-----------------------------------------------------------------------------
\* C23

\* the entries of a directory that are regular files named name
BinariesIn(dir, name) ==
    {i \in 1..Len(dir) : dir[i].kind = "file" /\ dir[i].path[Len(dir[i].path)] = name}

\* C23: when download_and_extract_hayabusa returns, the path it returns is a
\* regular file of the download directory, named as the platform's binary and,
\* except on Windows, with an execute bit set; with the binary already there it
\* returns it and neither asks for a release nor downloads; with the binary in
\* the downloaded archive it returns it after one download; when no binary is
\* there after the extraction it aborts.
C23_ReturnsRunnableBinary ==
    (fn = "fetch" /\ res # None)
    => LET r == res[1]
           name == BinaryName(arg.os)
           canChmod == arg.os = "windows" \/ arg.chmodOk
           before == BinariesIn(arg.dir, name) # {}
           known == \E s \in {dotZip, dotTarGz, dotTgz} : EndsWith(arg.release[1], s)
           fetched == arg.release # None /\ arg.download /\ known /\ arg.extract
       IN  /\ r.status = "returned"
              => /\ r.path # None
                 /\ \E i \in BinariesIn(r.dir, name) :
                       /\ r.dir[i].path = r.path[1]
                       /\ arg.os # "windows" => ExecBits(r.dir[i].mode)
           /\ before => r.downloads = 0 /\ r.lookups = 0
           /\ (before /\ canChmod) => r.status = "returned"
           /\ (~before /\ fetched /\ BinariesIn(arg.archive, name) # {} /\ canChmod)
              => r.status = "returned" /\ r.downloads = 1
           /\ (~before /\ fetched /\ BinariesIn(arg.archive, name) = {})
              => r.status = "aborted"
           /\ (~before /\ ~fetched) => r.status = "aborted"

\* on Linux the directory held a directory named hayabusa and no binary; the
\* archive brought one without execute bit, below a directory, and the call
\* returned it, executable
C23_ExtractedBinaryMadeExecutable ==
    /\ fn = "fetch"
    /\ res # None
    /\ arg.os = "linux"
    /\ \E i \in 1..Len(arg.dir) : arg.dir[i].kind = "dir" /\ arg.dir[i].path = <<hayabusa>>
    /\ \E i \in BinariesIn(arg.archive, hayabusa) :
          Len(arg.archive[i].path) = 2 /\ ~ExecBits(arg.archive[i].mode)
    /\ res[1].status = "returned"
    /\ res[1].downloads = 1
    /\ \E i \in BinariesIn(res[1].dir, hayabusa) :
          res[1].dir[i].path = res[1].path[1] /\ ExecBits(res[1].dir[i].mode)

-----------------------------------------------------------------------------
\* C24

\* no directory is listed twice under one case-insensitive path key
ListedOncePerKey ==
    \A i, j \in 1..Len(expanded) :
        (i # j /\ Len(expanded[i].parts) = Len(expanded[j].parts))
        => PathKey(expanded[i].parts) # PathKey(expanded[j].parts)

\* the walk has listed a directory again below itself: it went round a cycle
\* and met the directory under a longer path, whose key is new
WentRoundCycle ==
    \E i, j \in 1..Len(expanded) :
        /\ i < j
        /\ expanded[i].node = expanded[j].node
        /\ Len(expanded[i].parts) < Len(expanded[j].parts)
        /\ IsPrefix(expanded[i].parts, expanded[j].parts)

\* C24 as stated: the walk terminates also on a filesystem with a cycle through
\* a symbolic link, which it cannot unless the visited set stops it from going
\* round the cycle, and it lists no directory twice per case-insensitive key.
C24_CyclesStopAtVisited ==
    /\ ~WentRoundCycle
    /\ ListedOncePerKey

-----------------------------------------------------------------------------
\* C25

\* an entry that is neither a directory nor a file, whose is_dir() raises, or a
\* file whose stat() raises
Unusable(e) ==
    e.kind \in {"other", "broken"} \/ (e.kind = "file" /\ FileAttr(e.id).statFails)

\* the step that pops a directory not yet visited whose listing fails
PopsUnlistable ==
    /\ pc = "walk"
    /\ entries = <<>>
    /\ stack # <<>>
    /\ ListFails(stack[Len(stack)].node)
    /\ PathKey(stack[Len(stack)].parts) \notin visited

\* every file that qualifies in a directory the walk listed was handed over
ListedFilesHanded ==
    \A i \in 1..Len(expanded) :
        ~ListFails(expanded[i].node)
        => \A es \in {Listing(expanded[i])} :
           \A n \in 1..Len(es) :
              (es[n].kind = "file"
                 /\ ShouldScanFile(es[n].parts, FileAttr(es[n].id), config) # None)
              => \E h \in 1..Len(handed) : handed[h].parts = es[n].parts

\* C25: a directory whose listing fails is skipped and the walk goes on with
\* the stack as it was below that directory; an entry that is no file and no
\* directory, or whose stat fails, is skipped and the walk goes on with the
\* entries after it; neither ends the walk, so that a walk that completes has
\* handed over every qualifying file of every directory it listed.
C25_FailuresSkipped ==
    /\ [][PopsUnlistable
            => /\ pc' = "walk"
               /\ stack' = SubSeq(stack, 1, Len(stack) - 1)
               /\ entries' = <<>>
               /\ abortCause' = ""]_vars
    /\ [][(pc = "walk" /\ entries # <<>> /\ Unusable(Head(entries)))
            => /\ pc' = "walk"
               /\ entries' = Tail(entries)
               /\ stack' = stack
               /\ handed' = handed
               /\ abortCause' = ""]_vars
    /\ [](pc = "done" => ListedFilesHanded)

\* a walk that completed after a listing had failed with directories still on
\* the stack, one of which it listed next, and that handed over z.Exe, which
\* follows an unclassifiable entry and a file whose stat fails
C25_WalkWentOnAfterFailures ==
    /\ pc = "done"
    /\ \E i \in 1..Len(expanded) :
          /\ ListFails(expanded[i].node)
          /\ i < Len(expanded)
          /\ ~ListFails(expanded[i + 1].node)
    /\ \E h \in 1..Len(handed) : handed[h].id = "f8"

-----------------------------------------------------------------------------
\* C26

\* no directory the walk listed lies at or below an entry with a denied name:
\* below the root it was reached from, its path has no denied part
DeniedNeverListed ==
    \A roots \in {DetermineRoots(target)} :
    \A i \in 1..Len(expanded) :
        \E r \in 1..Len(roots) :
            /\ IsPrefix(roots[r].parts, expanded[i].parts)
            /\ \A k \in (Len(roots[r].parts) + 1)..Len(expanded[i].parts) :
                  ~Pruned(expanded[i].parts[k], config)

\* every directory entry without a denied name, in a directory the walk
\* listed, was listed itself
OthersExpanded ==
    \A i \in 1..Len(expanded) :
        ~ListFails(expanded[i].node)
        => \A es \in {Listing(expanded[i])} :
           \A n \in 1..Len(es) :
              (es[n].kind = "dir" /\ ~Pruned(es[n].parts[Len(es[n].parts)], config))
              => \E j \in 1..Len(expanded) : expanded[j].parts = es[n].parts

\* C26 as stated: a directory entry with a denied name is never pushed, so
\* neither it nor anything below it is listed, and when the walk has completed
\* every other directory entry has been pushed and expanded.
C26_DeniedPrunedOthersExpanded ==
    /\ DeniedNeverListed
    /\ pc = "done" => OthersExpanded

-----------------------------------------------------------------------------
\* C27

\* C27: files are processed one at a time.  A record is written only by the
\* scan_file call of the one candidate that is pending, which ends with the
\* candidate handed over; a file is qualified only when no candidate is
\* pending and every record of the files before it has been written and
\* counted, and qualifying writes nothing; a candidate is pending exactly
\* while main is in the body of its loop; and a scan_file call invokes the
\* matcher at most once.
C27_OneFileAtATime ==
    /\ [][nWrites' # nWrites
            => /\ pc = "scan"
               /\ current # None
               /\ Len(handed') = Len(handed) + 1
               /\ handed'[Len(handed')].id = current[1].id
               /\ current' = None]_vars
    /\ [][(pc # "scan" /\ current' # None)
            => /\ pc = "walk"
               /\ current = None
               /\ pc' = "scan"
               /\ scanned = Len(handed)
               /\ nWrites = matches
               /\ nWrites' = nWrites
               /\ handed' = handed]_vars
    /\ [](pc = "scan" <=> current # None)
    /\ [][last' # last
            => /\ pc = "scan"
               /\ last'[1].calls <= 1
               /\ last'[1].id = current[1].id]_vars

\* the next candidate is pending when the two records of the file before it
\* have been written
C27_NextQualifiedAfterRecords ==
    /\ pc = "scan"
    /\ current # None
    /\ last # None
    /\ last[1].id # current[1].id
    /\ Len(last[1].emitted) = 2
    /\ nWrites = matches
    /\ nWrites >= 2

-----------------------------------------------------------------------------
\* C28

\* the value converts to a number: it is one, or it is a string of decimal
\* digits with white space around them at most
Converts(v) ==
    \/ v.kind = "num"
    \/ /\ v.kind = "str"
       /\ NumberOf(SelectSeq(v.text, LAMBDA c : c # " ")) >= 0

NumericValue(v) ==
    IF v.kind = "num" THEN v.num ELSE NumberOf(SelectSeq(v.text, LAMBDA c : c # " "))

\* the metadata entries whose key is, case-insensitively, one of severity,
\* confidence, score, level, weight and whose value converts
Qualifying(meta) ==
    {i \in 1..Len(meta) :
        /\ \E k \in {kSeverity, kConfidence, kScore, kLevel, kWeight} :
              /\ Len(k) = Len(meta[i].key)
              /\ \A j \in 1..Len(k) : LowerChar(meta[i].key[j]) = k[j]
        /\ Converts(meta[i].value)}

\* C28: extract_severity returns the numeric value of the first metadata entry
\* whose key is, case-insensitively, one of the five keys and whose value
\* converts to a number, whatever recognised keys that do not convert come
\* before it, and nothing when no entry qualifies.
C28_FirstConvertibleKey ==
    (fn = "policy" /\ res # None)
    => \A q \in {Qualifying(arg.meta)} :
          IF q = {} THEN res[1].severity = None
          ELSE \E i \in q :
                  /\ \A j \in q : i <= j
                  /\ res[1].severity = Some(NumericValue(arg.meta[i].value))

\* two recognised keys whose values do not convert come first, and the value
\* of the third, the string " 2 ", is returned, not that of the fourth
C28_SearchWentPastUnconvertible ==
    /\ fn = "policy"
    /\ res # None
    /\ Len(arg.meta) >= 5
    /\ Lower(arg.meta[2].key) \in SEVERITY_KEYS /\ arg.meta[2].value.kind = "str"
    /\ Lower(arg.meta[3].key) \in SEVERITY_KEYS /\ arg.meta[3].value.kind = "text"
    /\ arg.meta[4].value = Str(<<" ","2"," ">>)
    /\ arg.meta[5].value = Num(0)
    /\ res[1].severity = Some(2)

-----------------------------------------------------------------------------
\* C29

\* a write that returns on a sink that has been closed and holds no handle
WriteAfterClose ==
    /\ fh = "none"
    /\ nCloses > 0
    /\ nWrites' = nWrites + 1

\* C29: a write after close leaves every segment the sink created as it is,
\* whatever number of lines it holds, and opens one new segment for its line,
\* with an ordinal above those of all segments; in the disk scan's and the
\* Hayabusa runner's sink it is the next one, the number of segments so far.
C29_WriteAfterCloseOpensNew ==
    [][WriteAfterClose
         => /\ Len(segments') = Len(segments) + 1
            /\ SubSeq(segments', 1, Len(segments)) = segments
            /\ segments'[Len(segments')].lines = 1
            /\ \A i \in 1..Len(segments) : segments[i].ord < segments'[Len(segments')].ord
            /\ variant = "yara" => segments'[Len(segments')].ord = Len(segments)]_vars

\* the disk scan's sink was closed with one line in a segment that rotates at
\* two or more, and the write after it opened the next segment
C29_ShortSegmentKept ==
    /\ variant = "yara"
    /\ maxLines >= 2
    /\ nCloses >= 1
    /\ fh = "open"
    /\ Len(segments) >= 2
    /\ segments[Len(segments) - 1].lines = 1
    /\ segments[Len(segments)].ord = segments[Len(segments) - 1].ord + 1
    /\ segments[Len(segments)].lines >= 1

-----------------------------------------------------------------------------
\* C30

\* C30: the run ends, and however main left the scanning phase (the walk was
\* exhausted, the evidence could not be opened, the sink raised, or another
\* exception came out of scan_file) the sink holds no handle, open or closed,
\* when it has ended.
C30_SinkClosedOnEveryExit ==
    /\ <>(pc \in {"done", "aborted"})
    /\ [](pc \in {"done", "aborted"} => fh = "none")

\* the run ended by an exception of scan_file that is neither a sink error nor
\* a failure to open the evidence, with a segment written, and close found the
\* handle and released it
C30_ClosedAfterOtherException ==
    /\ pc = "aborted"
    /\ opens = 1
    /\ abortCause \notin {"", "sink", "TargetError"}
    /\ segments # <<>>
    /\ nCloses = 1
    /\ fh = "none"

====
